---------------------------- MODULE Spec2Model ----------------------------
(***************************************************************************)
(* A model of scripts/build_cross_repo_map.py: the relation classifier,    *)
(* the match resolver, the go.mod alias collector, the allow-list filter,  *)
(* the search-tool invocation and the edge aggregator of main().           *)
(*                                                                         *)
(* Strings the program takes apart are sequences of tokens (a token is a   *)
(* separator character or a run of other characters), so that replace,     *)
(* split, strip and the regular expressions are computed, not assumed.     *)
(***************************************************************************)
EXTENDS Integers, Sequences, FiniteSets, TLC

VARIABLES
    max_evidence_per_edge,  \* args.max_evidence_per_edge (parse_args)
    edges,                  \* main: edges, a dict keyed by (source, target)
    arrivals,               \* history: per (source, target), the hits folded, in arrival order
    skipped,                \* history: number of hits skipped because target == source
    edge_list,              \* main: edge_list, the finalized report
    main_pc,                \* main: position ("scan", "report")
    call,                   \* the function under call and its arguments
    ret,                    \* whether it has returned, and its return value
    repo_dirs,              \* main: repo_dirs
    nodes,                  \* main: nodes
    scanned,                \* history: the source_dir values of the loop of line 392
    rg_pc,                  \* iter_rg_matches: position
    rg_next,                \* iter_rg_matches: index of the next line of proc.stdout
    rg_yielded              \* iter_rg_matches: the triples yielded so far

aggVars == <<max_evidence_per_edge, edges, arrivals, skipped, edge_list, main_pc>>

mainVars == <<repo_dirs, nodes, scanned>>

callVars == <<call, ret>>

rgVars == <<rg_pc, rg_next, rg_yielded>>

vars == <<aggVars, callVars, mainVars, rgVars>>

\* No call of iter_rg_matches is under way.
NoScan == rg_pc = "none" /\ rg_next = 1 /\ rg_yielded = <<>>

Idle == [fn |-> "none"]

NotReturned == [done |-> FALSE]

Returned(value) == [done |-> TRUE, value |-> value]

None == "None"

(***************************************************************************)
(* Bounds of the model.                                                    *)
(***************************************************************************)
MaxHits == 3
MaxCap == 2
MaxTokens == 3
MaxDirTokens == 4
MaxSegments == 3
MaxListLines == 2
MaxEvents == 3

(***************************************************************************)
(* Sequence helpers.                                                       *)
(***************************************************************************)
Last(s) == s[Len(s)]

Front(s) == SubSeq(s, 1, Len(s) - 1)

IsPrefix(p, s) == Len(p) <= Len(s) /\ SubSeq(s, 1, Len(p)) = p

RECURSIVE SumOver(_, _)
SumOver(f, S) ==
    IF S = {} THEN 0
    ELSE LET x == CHOOSE y \in S : TRUE IN f[x] + SumOver(f, S \ {x})

(***************************************************************************)
(* classify_relation_type.  A path is a sequence of tokens; "/" and "\\"   *)
(* are the separator tokens.                                               *)
(***************************************************************************)
NormalizeSeparators(relative_path) ==
    [i \in 1..Len(relative_path) |->
        IF relative_path[i] = "\\" THEN "/" ELSE relative_path[i]]

\* rel.split("/")[-1]: the tokens after the last "/" (empty when rel ends in "/").
RECURSIVE BaseName(_)
BaseName(rel) ==
    IF rel = <<>> THEN <<>>
    ELSE IF Last(rel) = "/" THEN <<>>
    ELSE Append(BaseName(Front(rel)), Last(rel))

NodeManifests == {<<"package.json">>, <<"package-lock.json">>, <<"pnpm-lock.yaml">>, <<"yarn.lock">>}

PythonManifests ==
    {<<"requirements.txt">>, <<"pyproject.toml">>, <<"poetry.lock">>, <<"Pipfile">>, <<"Pipfile.lock">>}

ContainerManifests == {<<"Dockerfile">>, <<"docker-compose.yaml">>, <<"docker-compose.yml">>}

WorkflowPrefix == <<".github", "/", "workflows", "/">>

\* The classifier without the replace of line 124.
classify_relation_type_NoReplace(relative_path) ==
    LET rel == relative_path
        base == BaseName(rel)
    IN  IF base = <<"go.mod">> THEN "go_module"
        ELSE IF base \in NodeManifests THEN "node_dependency"
        ELSE IF base \in PythonManifests THEN "python_dependency"
        ELSE IF base = <<".gitmodules">> THEN "git_submodule"
        ELSE IF IsPrefix(WorkflowPrefix, rel) THEN "github_action"
        ELSE IF base \in ContainerManifests THEN "container_reference"
        ELSE "reference"

classify_relation_type(relative_path) ==
    LET rel == NormalizeSeparators(relative_path)
        base == BaseName(rel)
    IN  IF base = <<"go.mod">> THEN "go_module"
        ELSE IF base \in NodeManifests THEN "node_dependency"
        ELSE IF base \in PythonManifests THEN "python_dependency"
        ELSE IF base = <<".gitmodules">> THEN "git_submodule"
        ELSE IF IsPrefix(WorkflowPrefix, rel) THEN "github_action"
        ELSE IF base \in ContainerManifests THEN "container_reference"
        ELSE "reference"

DEPENDENCY_REL_TYPES == {"go_module", "node_dependency", "python_dependency", "git_submodule"}

\* The relation tags in the order sorted() gives their names.
RelTypeOrder ==
    <<"container_reference", "git_submodule", "github_action", "go_module",
      "node_dependency", "python_dependency", "reference">>

RelTypes == {RelTypeOrder[i] : i \in 1..Len(RelTypeOrder)}

(***************************************************************************)
(* The edge aggregator of main().                                          *)
(***************************************************************************)
\* Repository names in the order sorted() gives them.
RepoOrder == <<"a", "b", "c">>

Repos == {RepoOrder[i] : i \in 1..Len(RepoOrder)}

Rank(order, x) == CHOOSE i \in 1..Len(order) : order[i] = x

Owners == {"example-org", "other-org"}

(***************************************************************************)
(* build_extractors and extract_targets.  A line is a sequence of tokens   *)
(* [kind, owner, name]:                                                    *)
(*   "url"    github.com/<owner>/<name>                                    *)
(*   "short"  <owner>/<name>                                               *)
(*   "alias"  a module path <name>                                         *)
(*   "word"   any other text                                               *)
(***************************************************************************)
\* str.lower() on the strings of the model.
Lower(s) ==
    CASE s = "B" -> "b"
      [] s = "Example-Org" -> "example-org"
      [] s = "Internal.example.net/b" -> "internal.example.net/b"
      [] OTHER -> s

ChunkSize == 120

Min(x, y) == IF x <= y THEN x ELSE y

RECURSIVE chunked(_, _)
chunked(items, chunk_size) ==
    IF items = <<>> THEN <<>>
    ELSE <<SubSeq(items, 1, Min(chunk_size, Len(items)))>>
         \o chunked(SubSeq(items, Min(chunk_size, Len(items)) + 1, Len(items)), chunk_size)

SeqToSet(s) == {s[i] : i \in 1..Len(s)}

\* Lines 226-262: the URL extractor, the org extractor when an org is given, and
\* the alias extractor (with its lower-cased lookup table) when an alias exists.
build_extractors(repo_names, org, module_aliases) ==
    LET names == SeqToSet(repo_names)
        alias_values == UNION {module_aliases[r] : r \in names \cap DOMAIN module_aliases}
        owner_of(alias) ==
            \* alias_to_repo[alias.lower()] = repo, the last repo of repo_names wins
            LET holders == {i \in 1..Len(repo_names) :
                              /\ repo_names[i] \in DOMAIN module_aliases
                              /\ \E al \in module_aliases[repo_names[i]] : Lower(al) = alias}
                last == CHOOSE i \in holders : \A j \in holders : j <= i
            IN  repo_names[last]
        alias_to_repo == [al \in {Lower(x) : x \in alias_values} |-> owner_of(al)]
    IN  IF names = {} THEN <<>>
        ELSE <<[kind |-> "url", names |-> names, org |-> None, alias_to_repo |-> <<>>]>>
             \o (IF org # None /\ org # ""
                 THEN <<[kind |-> "org", names |-> names, org |-> org, alias_to_repo |-> <<>>]>>
                 ELSE <<>>)
             \o (IF alias_values # {}
                 THEN <<[kind |-> "alias", names |-> names, org |-> None,
                         alias_to_repo |-> alias_to_repo]>>
                 ELSE <<>>)

\* Whether the (case-insensitive) alternation of the names matches the text.
NameMatches(extractor, text) == \E n \in extractor.names : Lower(n) = Lower(text)

\* One token under one extractor: the (repo, owner) the loop body reads from the
\* match (lines 315-320), or no match.
MatchOf(extractor, token) ==
    CASE extractor.kind = "url" ->
            IF token.kind = "url" /\ NameMatches(extractor, token.name)
            THEN <<[repo |-> token.name, owner |-> token.owner]>>
            ELSE <<>>
      [] extractor.kind = "org" ->
            IF /\ token.kind \in {"url", "short"}
               /\ Lower(token.owner) = Lower(extractor.org)
               /\ NameMatches(extractor, token.name)
            THEN <<[repo |-> token.name, owner |-> None]>>
            ELSE <<>>
      [] extractor.kind = "alias" ->
            IF token.kind = "alias" /\ Lower(token.name) \in DOMAIN extractor.alias_to_repo
            THEN <<[repo |-> extractor.alias_to_repo[Lower(token.name)], owner |-> None]>>
            ELSE <<>>

RECURSIVE finditer(_, _)
\* extractor.finditer(line): the matches in the order of the line.
finditer(extractor, line) ==
    IF line = <<>> THEN <<>>
    ELSE MatchOf(extractor, line[1]) \o finditer(extractor, Tail(line))

RECURSIVE AllMatches(_, _)
\* The matches in the order the two loops of lines 310-311 visit them.
AllMatches(extractors, line) ==
    IF extractors = <<>> THEN <<>>
    ELSE finditer(extractors[1], line) \o AllMatches(Tail(extractors), line)

\* The owner of the first match kept, whatever the later matches supply.
MergeOwner_FirstWins(owners_by_repo, match, known_repo_names) ==
    IF match.repo = None \/ match.repo = "" THEN owners_by_repo
    ELSE IF match.repo \notin known_repo_names THEN owners_by_repo
    ELSE IF match.repo \notin DOMAIN owners_by_repo
    THEN (match.repo :> match.owner) @@ owners_by_repo
    ELSE owners_by_repo

\* Lines 322-330: one match merged into owners_by_repo.
MergeOwner(owners_by_repo, match, known_repo_names) ==
    IF match.repo = None \/ match.repo = "" THEN owners_by_repo
    ELSE IF match.repo \notin known_repo_names THEN owners_by_repo
    ELSE LET existing_owner ==
                 IF match.repo \in DOMAIN owners_by_repo
                 THEN owners_by_repo[match.repo] ELSE None
         IN  IF existing_owner = None /\ match.owner # None
             THEN (match.repo :> match.owner) @@ owners_by_repo
             ELSE IF match.repo \notin DOMAIN owners_by_repo
             THEN (match.repo :> match.owner) @@ owners_by_repo
             ELSE owners_by_repo

RECURSIVE MergeAll(_, _, _)
MergeAll(owners_by_repo, matches, known_repo_names) ==
    IF matches = <<>> THEN owners_by_repo
    ELSE MergeAll(MergeOwner(owners_by_repo, matches[1], known_repo_names),
                  Tail(matches), known_repo_names)

RECURSIVE SortBy(_, _)
\* sorted(S, key=rank), rank injective on S.
SortBy(S, rank) ==
    IF S = {} THEN <<>>
    ELSE LET m == CHOOSE x \in S : \A y \in S : rank[x] <= rank[y]
         IN  <<m>> \o SortBy(S \ {m}, rank)

\* Lines 304-331.
extract_targets(line, extractors, known_repo_names) ==
    LET owners_by_repo == MergeAll(<<>>, AllMatches(extractors, line), known_repo_names)
        names == SortBy(DOMAIN owners_by_repo, [n \in Repos |-> Rank(RepoOrder, n)])
    IN  [i \in 1..Len(names) |-> <<names[i], owners_by_repo[names[i]]>>]

(***************************************************************************)
(* The edge aggregator of main().                                          *)
(***************************************************************************)
SnippetMax == 220

SnippetKeep == 217

\* line.strip(), cut to 217 characters and "..." when longer than 220.  A line
\* is its tokens and the number of characters strip() leaves.
Snippet(raw) ==
    IF raw.chars > SnippetMax
    THEN [text |-> raw.line, chars |-> SnippetKeep + 3, cut |-> TRUE]
    ELSE [text |-> raw.line, chars |-> raw.chars, cut |-> FALSE]

\* --org of the run the aggregator is checked in.
Org == "example-org"

\* What iter_rg_matches yields, (path, line_no, text), for lines naming repo r.
RawMatchesNaming(r) ==
    { [ file_path |-> <<"go.mod">>, line_no |-> 3, chars |-> 35,
        line |-> <<[kind |-> "word", owner |-> None, name |-> "require"],
                   [kind |-> "url", owner |-> "example-org", name |-> r]>> ],
      [ file_path |-> <<"docs", "/", "README.md">>, line_no |-> 7, chars |-> 221,
        line |-> <<[kind |-> "url", owner |-> "other-org", name |-> r]>> ],
      [ file_path |-> <<".github", "/", "workflows", "/", "ci.yml">>, line_no |-> 12, chars |-> 30,
        line |-> <<[kind |-> "word", owner |-> None, name |-> "uses:"],
                   [kind |-> "short", owner |-> "example-org", name |-> r]>> ] }

RawMatches == UNION {RawMatchesNaming(r) : r \in Repos}

Keys == {k \in Repos \X Repos : k[1] # k[2]}

Folded == SumOver([k \in Keys |-> Len(arrivals[k])], Keys) + skipped

\* A new edge that already counts the hit that creates it.
NewEdge_CountsFirstHit(source, target) ==
    [ source |-> source,
      target |-> target,
      occurrences |-> 1,
      relation_type_counts |-> <<>>,
      owners_observed |-> {},
      evidence |-> <<>> ]

NewEdge(source, target) ==
    [ source |-> source,
      target |-> target,
      occurrences |-> 0,
      relation_type_counts |-> <<>>,
      owners_observed |-> {},
      evidence |-> <<>> ]

\* rtc[relation_type] = 1 in place of += 1.
Increment_Overwrites(rtc, relation_type) == (relation_type :> 1) @@ rtc

\* rtc[relation_type] += 1 on a defaultdict(int).
Increment(rtc, relation_type) ==
    IF relation_type \in DOMAIN rtc
    THEN [rtc EXCEPT ![relation_type] = @ + 1]
    ELSE (relation_type :> 1) @@ rtc

EvidenceOf(raw, relation_type) ==
    [ file |-> raw.file_path,
      line |-> raw.line_no,
      relation_type |-> relation_type,
      snippet |-> Snippet(raw) ]

\* The cap tested with <= in place of <.
FoldInto_CapOffByOne(edge, raw, owner) ==
    LET relation_type == classify_relation_type(raw.file_path)
    IN  [ edge EXCEPT
            !.occurrences = @ + 1,
            !.relation_type_counts = Increment(@, relation_type),
            !.owners_observed = IF owner # None /\ owner # "" THEN @ \cup {owner} ELSE @,
            !.evidence = IF Len(@) <= max_evidence_per_edge
                         THEN Append(@, EvidenceOf(raw, relation_type))
                         ELSE @ ]

\* The owner recorded only by the hit that creates the edge.
FoldInto_OwnerOfFirstHit(edge, raw, owner) ==
    LET relation_type == classify_relation_type(raw.file_path)
    IN  [ edge EXCEPT
            !.occurrences = @ + 1,
            !.relation_type_counts = Increment(@, relation_type),
            !.owners_observed = IF owner # None /\ edge.occurrences = 0 THEN {owner} ELSE @,
            !.evidence = IF Len(@) < max_evidence_per_edge
                         THEN Append(@, EvidenceOf(raw, relation_type))
                         ELSE @ ]

\* Lines 415-448: the edge after one hit is folded into it.
FoldInto(edge, raw, owner) ==
    LET relation_type == classify_relation_type(raw.file_path)
    IN  [ edge EXCEPT
            !.occurrences = @ + 1,
            !.relation_type_counts = Increment(@, relation_type),
            !.owners_observed = IF owner # None /\ owner # "" THEN @ \cup {owner} ELSE @,
            !.evidence = IF Len(@) < max_evidence_per_edge
                         THEN Append(@, EvidenceOf(raw, relation_type))
                         ELSE @ ]

\* The fold without the test of line 412.
FoldHit_NoSelfTest(source, raw, target, owner) ==
    /\ main_pc = "scan"
    /\ Folded + Cardinality(DOMAIN edges \ Keys) < MaxHits
    /\ LET key == <<source, target>>
           edge == IF key \in DOMAIN edges THEN edges[key] ELSE NewEdge(source, target)
       IN  /\ edges' = (key :> FoldInto(edge, raw, owner)) @@ edges
           /\ arrivals' = [k \in Keys |->
                              IF k = key THEN Append(arrivals[k], [raw |-> raw, owner |-> owner])
                              ELSE arrivals[k]]
    /\ UNCHANGED <<skipped, max_evidence_per_edge, edge_list, main_pc, callVars, mainVars, rgVars>>

\* Lines 401-448: one (target, owner) of one raw match of the scan of source.
FoldHit(source, raw, target, owner) ==
    /\ main_pc = "scan"
    /\ Folded < MaxHits
    /\ IF target = source
       THEN /\ skipped' = skipped + 1
            /\ UNCHANGED <<edges, arrivals>>
       ELSE LET key == <<source, target>>
                edge == IF key \in DOMAIN edges THEN edges[key] ELSE NewEdge(source, target)
            IN  /\ edges' = (key :> FoldInto(edge, raw, owner)) @@ edges
                /\ arrivals' = [arrivals EXCEPT ![key] =
                                    Append(@, [raw |-> raw, owner |-> owner])]
                /\ UNCHANGED skipped
    /\ UNCHANGED <<max_evidence_per_edge, edge_list, main_pc, callVars, mainVars, rgVars>>

\* Lines 392-411: the hits of the scan of source_dir, over every chunk of names.
ScanHit ==
    \E source \in Repos, raw \in RawMatches :
        \E name_chunk \in SeqToSet(chunked(RepoOrder, ChunkSize)) :
            LET extractors == build_extractors(name_chunk, Org, <<>>)
                matches == extract_targets(raw.line, extractors, Repos)
            IN  \E i \in 1..Len(matches) : FoldHit(source, raw, matches[i][1], matches[i][2])

\* Lines 452-468: the report's entry of one edge.
Finalize(edge) ==
    LET rtc == edge.relation_type_counts
        sorted_types == SortBy(DOMAIN rtc, [t \in RelTypes |-> Rank(RelTypeOrder, t)])
    IN  [ source |-> edge.source,
          target |-> edge.target,
          occurrences |-> edge.occurrences,
          dependency_occurrences |-> SumOver(rtc, DOMAIN rtc \cap DEPENDENCY_REL_TYPES),
          relation_type_counts |->
              [i \in 1..Len(sorted_types) |-> <<sorted_types[i], rtc[sorted_types[i]]>>],
          owners_observed |-> edge.owners_observed,
          evidence |-> edge.evidence ]

\* Lines 450-468: the edges sorted by (source, target), each finalized.
EmitReport ==
    /\ main_pc = "scan"
    /\ LET key_rank == [k \in Keys |->
                   Rank(RepoOrder, k[1]) * (Len(RepoOrder) + 1) + Rank(RepoOrder, k[2])]
           sorted_keys == SortBy(DOMAIN edges, key_rank)
       IN  edge_list' = [i \in 1..Len(sorted_keys) |-> Finalize(edges[sorted_keys[i]])]
    /\ main_pc' = "report"
    /\ UNCHANGED <<max_evidence_per_edge, edges, arrivals, skipped, callVars, mainVars, rgVars>>

Init ==
    /\ max_evidence_per_edge \in -1..MaxCap
    /\ edges = <<>>
    /\ arrivals = [k \in Keys |-> <<>>]
    /\ skipped = 0
    /\ edge_list = <<>>
    /\ main_pc = "scan"
    /\ repo_dirs = RepoOrder
    /\ nodes = <<>>
    /\ scanned = <<>>
    /\ NoScan
    /\ call = Idle
    /\ ret = NotReturned

Next ==
    \/ ScanHit
    \/ EmitReport

Spec == Init /\ [][Next]_vars

(***************************************************************************)
(* The claims about the edge aggregator.                                   *)
(***************************************************************************)
Occurrences(e, k) == IF k \in DOMAIN e THEN e[k].occurrences ELSE 0

TypeCount(e, k, t) ==
    IF k \in DOMAIN e /\ t \in DOMAIN e[k].relation_type_counts
    THEN e[k].relation_type_counts[t] ELSE 0

RelTypeOfHit(hit) == classify_relation_type(hit.raw.file_path)

NoSelfEdge ==
    /\ \A k \in DOMAIN edges :
          k[1] # k[2] /\ edges[k].source = k[1] /\ edges[k].target = k[2]
    /\ \A i \in 1..Len(edge_list) : edge_list[i].source # edge_list[i].target

\* C1: no edge has its source as its target, in the edge map or in the report,
\* and a hit whose target is the repository being scanned leaves the edge map
\* as it was.
C1_NoSelfEdges ==
    /\ []NoSelfEdge
    /\ [][skipped' # skipped => edges' = edges]_vars

C1_Witness == skipped >= 1 /\ DOMAIN edges # {} /\ main_pc = "report"

\* C2 as stated: every edge's evidence list is no longer than
\* max_evidence_per_edge, and its occurrences is the number of hits folded for
\* its (source, target).
C2_AsStated ==
    \A k \in DOMAIN edges :
        /\ Len(edges[k].evidence) <= max_evidence_per_edge
        /\ edges[k].occurrences = Len(arrivals[k])

\* C2, amended: every edge's evidence list is no longer than
\* max_evidence_per_edge when that is 0 or more and is empty when it is
\* negative, and its occurrences is the number of hits folded for its
\* (source, target).
C2_EvidenceCap ==
    \A k \in DOMAIN edges :
        /\ Len(edges[k].evidence) <= (IF max_evidence_per_edge >= 0
                                       THEN max_evidence_per_edge ELSE 0)
        /\ edges[k].occurrences = Len(arrivals[k])

C2_Witness ==
    \E k \in DOMAIN edges :
        /\ max_evidence_per_edge >= 1
        /\ Len(edges[k].evidence) = max_evidence_per_edge
        /\ edges[k].occurrences > max_evidence_per_edge

\* C3: folding a hit of relation type r for (s, t), s # t, adds one to the
\* occurrences of edge (s, t) and one to its count of r, and changes no other
\* count of that edge and no other edge; a step that folds no hit for an edge
\* leaves the edge as it was.
C3_FoldAddsOne ==
    [][\A k \in Keys :
          IF arrivals'[k] # arrivals[k]
          THEN /\ k \in DOMAIN edges'
               /\ Occurrences(edges', k) = Occurrences(edges, k) + 1
               /\ \A t \in RelTypes :
                     TypeCount(edges', k, t) =
                        TypeCount(edges, k, t)
                        + (IF t = RelTypeOfHit(Last(arrivals'[k])) THEN 1 ELSE 0)
               /\ \A k2 \in Keys \ {k} : arrivals'[k2] = arrivals[k2]
          ELSE /\ k \in DOMAIN edges' <=> k \in DOMAIN edges
               /\ k \in DOMAIN edges => edges'[k] = edges[k]
      ]_vars

C3_Witness ==
    \E k, k2 \in DOMAIN edges :
        /\ k # k2
        /\ edges[k].occurrences >= 2
        /\ Cardinality(DOMAIN edges[k].relation_type_counts) >= 2

\* The counters and the owners of the edge of k, from the hits folded for k
\* whatever their order.
CountsOfHits(hits) ==
    LET types == {RelTypeOfHit(hits[i]) : i \in 1..Len(hits)}
    IN  [t \in types |-> Cardinality({i \in 1..Len(hits) : RelTypeOfHit(hits[i]) = t})]

OwnersOfHits(hits) == {hits[i].owner : i \in 1..Len(hits)} \ {None}

\* C5: the edges, and each edge's occurrences, relation-type counts and owners,
\* are those of the multiset of the hits folded, whatever the order they came
\* in; the evidence of an edge is its first min(cap, occurrences) hits in
\* arrival order.
C5_OrderInsensitive ==
    \A k \in Keys :
        /\ k \in DOMAIN edges <=> arrivals[k] # <<>>
        /\ k \in DOMAIN edges =>
              LET hits == arrivals[k]
                  kept == SubSeq(hits, 1, Min(max_evidence_per_edge, edges[k].occurrences))
              IN  /\ edges[k].occurrences = Len(hits)
                  /\ edges[k].relation_type_counts = CountsOfHits(hits)
                  /\ edges[k].owners_observed = OwnersOfHits(hits)
                  /\ edges[k].evidence =
                        [i \in 1..Len(kept) |-> EvidenceOf(kept[i].raw, RelTypeOfHit(kept[i]))]

C5_Witness ==
    \E k \in DOMAIN edges :
        /\ edges[k].occurrences = 3
        /\ Len(edges[k].evidence) = 2
        /\ arrivals[k][1].owner = None
        /\ arrivals[k][2].owner # arrivals[k][3].owner
        /\ arrivals[k][3].owner # None
        /\ RelTypeOfHit(arrivals[k][1]) # RelTypeOfHit(arrivals[k][3])

\* C10: every edge has occurrences >= 1, equal to the sum of its relation-type
\* counts, each of them >= 1, and a dependency_occurrences between 0 and its
\* occurrences, in the edge map and in the report.
C10_CountersAgree ==
    /\ \A k \in DOMAIN edges :
          LET rtc == edges[k].relation_type_counts
              dep == Finalize(edges[k]).dependency_occurrences
          IN  /\ edges[k].occurrences >= 1
              /\ edges[k].occurrences = SumOver(rtc, DOMAIN rtc)
              /\ \A t \in DOMAIN rtc : rtc[t] >= 1
              /\ 0 <= dep /\ dep <= edges[k].occurrences
    /\ \A i \in 1..Len(edge_list) :
          LET counts == edge_list[i].relation_type_counts
              total == SumOver([j \in 1..Len(counts) |-> counts[j][2]], 1..Len(counts))
          IN  /\ edge_list[i].occurrences >= 1
              /\ edge_list[i].occurrences = total
              /\ \A j \in 1..Len(counts) : counts[j][2] >= 1
              /\ 0 <= edge_list[i].dependency_occurrences
              /\ edge_list[i].dependency_occurrences <= edge_list[i].occurrences

C10_Witness ==
    \E i \in 1..Len(edge_list) :
        /\ edge_list[i].occurrences = 3
        /\ edge_list[i].dependency_occurrences = 1
        /\ Len(edge_list[i].relation_type_counts) = 2

(***************************************************************************)
(* extract_targets called on one line.                                     *)
(***************************************************************************)
SeqsUpTo(S, n) == UNION {[1..m -> S] : m \in 0..n}

LineTokens ==
    { [kind |-> "url", owner |-> o, name |-> n] : o \in Owners, n \in {"a", "b", "B"} }
    \cup { [kind |-> "short", owner |-> "example-org", name |-> n] : n \in {"a", "b"} }
    \cup { [kind |-> "alias", owner |-> None, name |-> al] :
              al \in {"internal.example.net/b", "Internal.example.net/b"} }
    \cup { [kind |-> "word", owner |-> None, name |-> "see"] }

\* The names the extractors are built from; "c" is a repository the line's
\* names never resolve to.
KnownNames == <<"a", "b">>

Reverse(s) == [i \in 1..Len(s) |-> s[Len(s) + 1 - i]]

InitExtract ==
    /\ \E line \in SeqsUpTo(LineTokens, MaxTokens),
          org \in {None, Org},
          module_aliases \in {<<>>, [r \in {"b"} |-> {"internal.example.net/b"}]},
          reversed \in BOOLEAN :
            LET extractors == build_extractors(KnownNames, org, module_aliases)
            IN  call = [ fn |-> "extract_targets",
                         line |-> line,
                         extractors |-> IF reversed THEN Reverse(extractors) ELSE extractors,
                         known_repo_names |-> SeqToSet(KnownNames) ]
    /\ ret = NotReturned
    /\ max_evidence_per_edge = 0
    /\ edges = <<>>
    /\ arrivals = [k \in Keys |-> <<>>]
    /\ skipped = 0
    /\ edge_list = <<>>
    /\ main_pc = "scan"
    /\ repo_dirs = RepoOrder
    /\ nodes = <<>>
    /\ scanned = <<>>
    /\ NoScan

CallExtractTargets ==
    /\ call.fn = "extract_targets"
    /\ ~ret.done
    /\ ret' = Returned(extract_targets(call.line, call.extractors, call.known_repo_names))
    /\ UNCHANGED <<call, aggVars, mainVars, rgVars>>

NextExtract == CallExtractTargets

SpecExtract == InitExtract /\ [][NextExtract]_vars

\* The matches of the line that resolve a known repository.
Resolving == {m \in SeqToSet(AllMatches(call.extractors, call.line)) :
                 m.repo \in call.known_repo_names}

\* C4: the result holds each known repository that a match of the line resolves
\* once, in the order of the names, and no other name; its owner is an owner
\* that a match resolving it supplied when one did, and missing when none did.
C4_ExtractTargets ==
    ret.done =>
        LET result == ret.value
        IN  /\ \A i, j \in 1..Len(result) :
                  i < j => Rank(RepoOrder, result[i][1]) < Rank(RepoOrder, result[j][1])
            /\ {result[i][1] : i \in 1..Len(result)} = {m.repo : m \in Resolving}
            /\ \A i \in 1..Len(result) :
                  LET supplied == {m.owner : m \in {x \in Resolving : x.repo = result[i][1]}}
                                      \ {None}
                  IN  /\ result[i][1] \in call.known_repo_names
                      /\ IF supplied = {} THEN result[i][2] = None
                         ELSE result[i][2] \in supplied

\* Two targets, the second one resolved first without an owner (by the alias)
\* and later with one (by the URL).
C4_Witness ==
    /\ ret.done
    /\ Len(ret.value) = 2
    /\ ret.value[2] = <<"b", "other-org">>
    /\ ret.value[1][2] = None
    /\ LET all == AllMatches(call.extractors, call.line)
       IN  /\ Len(all) = 3
           /\ all[1].repo = "b" /\ all[1].owner = None
           /\ all[3].repo = "b" /\ all[3].owner = "other-org"

(***************************************************************************)
(* classify_relation_type called on one path.                              *)
(***************************************************************************)
DirTokens == {"/", "\\", ".github", "workflows", "."}

FileNames ==
    UNION {NodeManifests, PythonManifests, ContainerManifests,
           {<<"go.mod">>, <<".gitmodules">>, <<"ci.yml">>, <<>>}}

InitClassify ==
    /\ \E dirs \in SeqsUpTo(DirTokens, MaxDirTokens), name \in FileNames :
            call = [fn |-> "classify_relation_type", relative_path |-> dirs \o name]
    /\ ret = NotReturned
    /\ max_evidence_per_edge = 0
    /\ edges = <<>>
    /\ arrivals = [k \in Keys |-> <<>>]
    /\ skipped = 0
    /\ edge_list = <<>>
    /\ main_pc = "scan"
    /\ repo_dirs = RepoOrder
    /\ nodes = <<>>
    /\ scanned = <<>>
    /\ NoScan

CallClassify ==
    /\ call.fn = "classify_relation_type"
    /\ ~ret.done
    /\ ret' = Returned(classify_relation_type(call.relative_path))
    /\ UNCHANGED <<call, aggVars, mainVars, rgVars>>

NextClassify == CallClassify

SpecClassify == InitClassify /\ [][NextClassify]_vars

Separators == {"/", "\\"}

\* The tokens after the last separator of the path.
LastSegment(path) ==
    LET seps == {i \in 1..Len(path) : path[i] \in Separators}
        start == IF seps = {} THEN 1 ELSE (CHOOSE i \in seps : \A j \in seps : j <= i) + 1
    IN  SubSeq(path, start, Len(path))

\* The path starts with .github, a separator, workflows, a separator.
UnderWorkflows(path) ==
    /\ Len(path) >= 4
    /\ path[1] = ".github" /\ path[2] \in Separators
    /\ path[3] = "workflows" /\ path[4] \in Separators

ModuleTagOf(base) ==
    CASE base = <<"go.mod">> -> "go_module"
      [] base \in NodeManifests -> "node_dependency"
      [] base \in PythonManifests -> "python_dependency"
      [] base = <<".gitmodules">> -> "git_submodule"
      [] OTHER -> None

\* C8 as stated: the manifest and submodule base names give their tags, any
\* path under .github/workflows/ gives github_action, the container base names
\* give container_reference and every other path gives reference.
C8_AsStated ==
    ret.done =>
        LET path == call.relative_path
            base == LastSegment(path)
        IN  /\ ret.value \in RelTypes
            /\ ModuleTagOf(base) # None => ret.value = ModuleTagOf(base)
            /\ UnderWorkflows(path) => ret.value = "github_action"
            /\ base \in ContainerManifests => ret.value = "container_reference"
            /\ (/\ ModuleTagOf(base) = None
                /\ ~UnderWorkflows(path)
                /\ base \notin ContainerManifests) => ret.value = "reference"

\* C8, amended: the result is one of the seven tags; it is the tag of the
\* manifest or submodule base name when the base name is one, also under
\* .github/workflows/; otherwise github_action when the path starts with
\* .github/workflows/ (either separator), also for a container manifest;
\* otherwise container_reference for a container base name; otherwise
\* reference.
C8_Classify ==
    ret.done =>
        LET path == call.relative_path
            base == LastSegment(path)
        IN  /\ ret.value \in RelTypes
            /\ ModuleTagOf(base) # None => ret.value = ModuleTagOf(base)
            /\ (ModuleTagOf(base) = None /\ UnderWorkflows(path)) => ret.value = "github_action"
            /\ (/\ ModuleTagOf(base) = None
                /\ ~UnderWorkflows(path)
                /\ base \in ContainerManifests) => ret.value = "container_reference"
            /\ (/\ ModuleTagOf(base) = None
                /\ ~UnderWorkflows(path)
                /\ base \notin ContainerManifests) => ret.value = "reference"

C8_Witness ==
    /\ ret.done
    /\ call.relative_path = <<".github", "\\", "workflows", "/", "package.json">>
    /\ ret.value = "node_dependency"

(***************************************************************************)
(* collect_go_module_aliases.  A module path is the sequence of its        *)
(* segments, what split("/") gives; a segment, like a repository name, is  *)
(* a sequence of characters or character runs, empty between two slashes.  *)
(* A go.mod file is whether it can be read and its lines; a line is a      *)
(* module declaration (module_line_re matches, with the path it declares)  *)
(* or any other line.                                                      *)
(***************************************************************************)
Digits == {"0", "1", "2", "3", "4", "5", "6", "7", "8", "9"}

\* semver_suffix_re.fullmatch(part): v followed by one or more digits.
IsSemverSuffix(part) ==
    /\ Len(part) >= 2
    /\ part[1] = "v"
    /\ \A i \in 2..Len(part) : part[i] \in Digits

NoPath == <<>>

NoName == <<>>

RECURSIVE FirstModulePath(_)
\* Lines 168-173: the path of the first line module_line_re matches.
FirstModulePath(lines) ==
    IF lines = <<>> THEN NoPath
    ELSE IF lines[1].kind = "module" THEN lines[1].path
    ELSE FirstModulePath(Tail(lines))

\* Line 178: the non-empty segments.
PartsOf(module_path) == SelectSeq(module_path, LAMBDA part : part # <<>>)

\* The version suffix not asked for: the second-to-last part is the name
\* whenever it is known.
RepoNameOf_AnySuffix(parts, known_repo_names) ==
    IF Last(parts) \in known_repo_names THEN Last(parts)
    ELSE IF Len(parts) >= 2 /\ parts[Len(parts) - 1] \in known_repo_names
    THEN parts[Len(parts) - 1]
    ELSE NoName

\* Lines 182-191.
RepoNameOf(parts, known_repo_names) ==
    IF Last(parts) \in known_repo_names THEN Last(parts)
    ELSE IF /\ Len(parts) >= 2
            /\ IsSemverSuffix(Last(parts))
            /\ parts[Len(parts) - 1] \in known_repo_names
    THEN parts[Len(parts) - 1]
    ELSE NoName

\* Lines 163-194: the aliases after one go.mod file.
AddAliasOf(aliases, go_mod, known_repo_names) ==
    IF ~go_mod.readable THEN aliases
    ELSE LET module_path == FirstModulePath(go_mod.lines)
             parts == PartsOf(module_path)
         IN  IF module_path = NoPath THEN aliases
             ELSE IF parts = <<>> THEN aliases
             ELSE LET repo_name == RepoNameOf(parts, known_repo_names)
                  IN  IF repo_name = NoName THEN aliases
                      ELSE IF repo_name \in DOMAIN aliases
                      THEN [aliases EXCEPT ![repo_name] = @ \cup {module_path}]
                      ELSE (repo_name :> {module_path}) @@ aliases

RECURSIVE AliasesOf(_, _, _)
AliasesOf(aliases, go_mods, known_repo_names) ==
    IF go_mods = <<>> THEN aliases
    ELSE AliasesOf(AddAliasOf(aliases, go_mods[1], known_repo_names),
                   Tail(go_mods), known_repo_names)

\* Lines 147-196; go_mods are the go.mod files of the repo_dirs in rglob order.
collect_go_module_aliases(go_mods, known_repo_names) == AliasesOf(<<>>, go_mods, known_repo_names)

Segments == {<<>>, <<"transform">>, <<"pkg">>, <<"v", "2">>, <<"v">>, <<"v", "2", "x">>}

\* The strings [^\s]+ can capture: at least one character.
ModulePaths == UNION {[1..n -> Segments] : n \in 1..MaxSegments} \ {<< <<>> >>}

ModuleLine(path) == [kind |-> "module", path |-> path]

OtherLine == [kind |-> "other", path |-> NoPath]

GoModFiles ==
    { [readable |-> TRUE, lines |-> ls] :
        ls \in UNION { {<<ModuleLine(p)>>,
                        <<OtherLine, ModuleLine(p)>>,
                        <<ModuleLine(p), ModuleLine(<<<<"pkg">>, <<"transform">>>>)>>} :
                      p \in ModulePaths } }
    \cup { [readable |-> TRUE, lines |-> <<OtherLine>>],
           [readable |-> FALSE, lines |-> <<ModuleLine(<<<<"transform">>>>)>>] }

MoreGoModFiles ==
    { <<>>,
      <<[readable |-> TRUE, lines |-> <<ModuleLine(<<<<"pkg">>, <<"transform">>>>)>>]>>,
      <<[readable |-> TRUE, lines |-> <<ModuleLine(<<<<"transform">>, <<"pkg">>>>)>>]>>,
      <<[readable |-> FALSE, lines |-> <<ModuleLine(<<<<"pkg">>, <<"transform">>, <<"v", "2">>>>)>>]>> }

KnownNameSets ==
    { {<<"transform">>}, {<<"transform">>, <<"v", "2">>}, {<<"transform">>, <<"pkg">>} }

InitAlias ==
    /\ \E first \in GoModFiles, more \in MoreGoModFiles, known \in KnownNameSets :
            call = [ fn |-> "collect_go_module_aliases",
                     go_mods |-> <<first>> \o more,
                     known_repo_names |-> known ]
    /\ ret = NotReturned
    /\ max_evidence_per_edge = 0
    /\ edges = <<>>
    /\ arrivals = [k \in Keys |-> <<>>]
    /\ skipped = 0
    /\ edge_list = <<>>
    /\ main_pc = "scan"
    /\ repo_dirs = RepoOrder
    /\ nodes = <<>>
    /\ scanned = <<>>
    /\ NoScan

CallCollectAliases ==
    /\ call.fn = "collect_go_module_aliases"
    /\ ~ret.done
    /\ ret' = Returned(collect_go_module_aliases(call.go_mods, call.known_repo_names))
    /\ UNCHANGED <<call, aggVars, mainVars, rgVars>>

NextAlias == CallCollectAliases

SpecAlias == InitAlias /\ [][NextAlias]_vars

\* The module path each readable go.mod declares: that of its first module line.
DeclaredPaths ==
    { LET ls == call.go_mods[i].lines
          first == CHOOSE j \in 1..Len(ls) :
                       ls[j].kind = "module" /\ \A h \in 1..(j - 1) : ls[h].kind # "module"
      IN  ls[first].path :
        i \in { h \in 1..Len(call.go_mods) :
                  /\ call.go_mods[h].readable
                  /\ \E j \in 1..Len(call.go_mods[h].lines) :
                        call.go_mods[h].lines[j].kind = "module" } }

\* The segments of a path that are not empty, from the last one: the n-th.
FromEnd(path, n) ==
    LET idx == {i \in 1..Len(path) : path[i] # <<>>}
        pos == {i \in idx : Cardinality({j \in idx : j >= i}) = n}
    IN  IF pos = {} THEN NoName ELSE path[CHOOSE i \in pos : TRUE]

HasVersionSuffix(path) ==
    LET last == FromEnd(path, 1)
    IN  /\ Len(last) >= 2
        /\ last[1] = "v"
        /\ \A i \in 2..Len(last) : last[i] \in Digits

\* The shape of C9: the last segment is r, or it is a version suffix and the
\* segment before it is r.
AliasShape(path, r) ==
    \/ FromEnd(path, 1) = r
    \/ HasVersionSuffix(path) /\ FromEnd(path, 2) = r

IsAlias(path, r) == r \in DOMAIN ret.value /\ path \in ret.value[r]

\* C9 as stated: a path is an alias of r only if r is known and the path has
\* the shape for r, and every declared path that has the shape for a known r
\* is an alias of r.
C9_AsStated ==
    ret.done =>
        /\ \A r \in DOMAIN ret.value : \A path \in ret.value[r] :
              r \in call.known_repo_names /\ AliasShape(path, r)
        /\ \A path \in DeclaredPaths : \A r \in call.known_repo_names :
              AliasShape(path, r) => IsAlias(path, r)

\* C9, amended: the aliases of r are the declared paths whose last segment is
\* r, and those whose last segment is a version suffix that is not itself a
\* known repository name and whose segment before it is r; r is known.
C9_Aliases ==
    ret.done =>
        /\ DOMAIN ret.value \subseteq call.known_repo_names
        /\ \A r \in call.known_repo_names :
           \A path \in DeclaredPaths \cup UNION {ret.value[x] : x \in DOMAIN ret.value} :
              IsAlias(path, r) <=>
                  /\ path \in DeclaredPaths
                  /\ \/ FromEnd(path, 1) = r
                     \/ /\ FromEnd(path, 1) \notin call.known_repo_names
                        /\ HasVersionSuffix(path)
                        /\ FromEnd(path, 2) = r

\* transform/ and pkg/transform/v2 both aliases of the known transform; v2 is
\* no repository.
C9_Witness ==
    /\ ret.done
    /\ call.known_repo_names = {<<"transform">>}
    /\ IsAlias(<<<<"pkg">>, <<"transform">>, <<"v", "2">>>>, <<"transform">>)
    /\ IsAlias(<<<<"pkg">>, <<"transform">>>>, <<"transform">>)

(***************************************************************************)
(* parse_repo_ref, load_allowed_repo_names and the configuration steps of  *)
(* main().  A line of text is a sequence of tokens: " " (white space),     *)
(* "#", "/", ".git", the prefixes "https://github.com/" and                *)
(* "git@github.com:", and names.  A directory name is such a sequence too. *)
(***************************************************************************)
HttpsPrefix == "https://github.com/"

SshPrefix == "git@github.com:"

RECURSIVE LStrip(_)
LStrip(value) ==
    IF value # <<>> /\ value[1] = " " THEN LStrip(Tail(value)) ELSE value

RECURSIVE RStrip(_)
RStrip(value) ==
    IF value # <<>> /\ Last(value) = " " THEN RStrip(Front(value)) ELSE value

Strip(value) == RStrip(LStrip(value))

RECURSIVE SplitOnSlash(_)
\* text.split("/")
SplitOnSlash(text) ==
    IF \A i \in 1..Len(text) : text[i] # "/" THEN <<text>>
    ELSE LET i == CHOOSE j \in 1..Len(text) :
                      text[j] = "/" /\ \A h \in 1..(j - 1) : text[h] # "/"
         IN  <<SubSeq(text, 1, i - 1)>> \o SplitOnSlash(SubSeq(text, i + 1, Len(text)))

NoRef == [ok |-> FALSE]

\* ([^/]+)/([^/]+?)(?:\.git)?$ on the text after the prefix: two parts that
\* are not empty, the second one less one trailing .git when more is left.
OwnerAndRepo(text) ==
    LET parts == SplitOnSlash(text)
    IN  IF /\ Len(parts) = 2
           /\ parts[1] # <<>> /\ parts[2] # <<>>
           /\ \A i \in 1..Len(text) : text[i] # HttpsPrefix
        THEN [ ok |-> TRUE,
               owner |-> parts[1],
               repo |-> IF Len(parts[2]) >= 2 /\ Last(parts[2]) = ".git"
                        THEN Front(parts[2]) ELSE parts[2] ]
        ELSE NoRef

\* ^([^/\s]+)/([^/\s]+)$ and removesuffix(".git").
BareRef(raw) ==
    LET parts == SplitOnSlash(raw)
    IN  IF /\ Len(parts) = 2
           /\ parts[1] # <<>> /\ parts[2] # <<>>
           /\ \A i \in 1..Len(raw) : raw[i] \notin {HttpsPrefix, " "}
        THEN [ ok |-> TRUE,
               owner |-> parts[1],
               repo |-> IF Last(parts[2]) = ".git" THEN Front(parts[2]) ELSE parts[2] ]
        ELSE NoRef

\* Lines 65-82.
parse_repo_ref(value) ==
    LET raw == Strip(value)
        http_match ==
            IF raw # <<>> /\ raw[1] = HttpsPrefix
            THEN LET rest == Tail(raw)
                 IN  OwnerAndRepo(IF Len(rest) >= 2 /\ Last(rest) = "/" THEN Front(rest) ELSE rest)
            ELSE NoRef
        ssh_match ==
            IF raw # <<>> /\ raw[1] = SshPrefix THEN OwnerAndRepo(Tail(raw)) ELSE NoRef
    IN  IF raw = <<>> \/ raw[1] = "#" THEN NoRef
        ELSE IF http_match.ok THEN http_match
        ELSE IF ssh_match.ok THEN ssh_match
        ELSE BareRef(raw)

\* Lines 114-120.
load_allowed_repo_names(lines) ==
    {parse_repo_ref(lines[i]).repo : i \in {j \in 1..Len(lines) : parse_repo_ref(lines[j]).ok}}

\* The directory names under the root, in the order of name.lower().
DirOrder == << <<"a">>, <<"b">>, <<"c">> >>

\* Lines 85-89.
discover_repo_dirs(dirs) ==
    SortBy(dirs, [d \in SeqToSet(DirOrder) |-> Rank(DirOrder, d)])

\* What git remote get-url origin prints in each directory; none in b.
OriginOf(dir) ==
    CASE dir = <<"a">> -> <<HttpsPrefix, "o", "/", "a", ".git">>
      [] dir = <<"c">> -> <<SshPrefix, "o", "/", "c", " ">>
      [] OTHER -> <<>>

\* Lines 92-111 and 369-377; full_name is (owner, repo).
NodeOf(repo_dir) ==
    LET parsed == parse_repo_ref(OriginOf(repo_dir))
    IN  [ name |-> repo_dir,
          full_name |-> IF parsed.ok THEN <<parsed.owner, parsed.repo>> ELSE <<>>,
          owner |-> IF parsed.ok THEN parsed.owner ELSE <<>> ]

NoFile == [given |-> FALSE]

\* Lines 354-364: the directories kept, none when main returns 1.
FilterByAllowList(dirs, repo_list_file) ==
    IF ~repo_list_file.given THEN [ok |-> TRUE, repo_dirs |-> dirs]
    ELSE IF ~repo_list_file.is_file THEN [ok |-> FALSE, repo_dirs |-> <<>>]
    ELSE LET allowed == load_allowed_repo_names(repo_list_file.lines)
             kept == IF allowed # {}
                     THEN SelectSeq(dirs, LAMBDA d : d \in allowed)
                     ELSE dirs
         IN  [ok |-> kept # <<>>, repo_dirs |-> kept]

\* Lines 342-378: the checks of the root and of the allow-list, then the nodes.
Configure ==
    /\ main_pc = "start"
    /\ LET found == IF call.root_is_dir THEN discover_repo_dirs(call.dirs) ELSE <<>>
           kept == FilterByAllowList(found, call.repo_list_file)
       IN  IF ~call.root_is_dir \/ found = <<>> \/ ~kept.ok
           THEN /\ main_pc' = "exit1"
                /\ UNCHANGED <<repo_dirs, nodes>>
           ELSE /\ main_pc' = "scan"
                /\ repo_dirs' = kept.repo_dirs
                /\ nodes' = [i \in 1..Len(kept.repo_dirs) |-> NodeOf(kept.repo_dirs[i])]
    /\ UNCHANGED <<max_evidence_per_edge, edges, arrivals, skipped, edge_list, callVars, scanned, rgVars>>

\* Lines 392-393: the loop takes the next source_dir.
ScanNext ==
    /\ main_pc = "scan"
    /\ Len(scanned) < Len(repo_dirs)
    /\ scanned' = Append(scanned, repo_dirs[Len(scanned) + 1])
    /\ UNCHANGED <<aggVars, callVars, repo_dirs, nodes, rgVars>>

AllowLines ==
    { <<>>,
      <<"#", "o", "/", "a">>,
      <<"b">>,
      <<HttpsPrefix, "o", "/", "a", ".git">>,
      <<HttpsPrefix, "o", "/", "b", "/">>,
      <<SshPrefix, "o", "/", "b">>,
      <<" ", "o", "/", "a", " ">>,
      <<"o", "/", "c", ".git">>,
      <<"o", "/", "z">> }

RepoListFiles ==
    {NoFile, [given |-> TRUE, is_file |-> FALSE, lines |-> <<>>]}
    \cup {[given |-> TRUE, is_file |-> TRUE, lines |-> ls] : ls \in SeqsUpTo(AllowLines, MaxListLines)}

InitMain ==
    /\ \E root_is_dir \in BOOLEAN, dirs \in SUBSET SeqToSet(DirOrder), file \in RepoListFiles :
            call = [fn |-> "main", root_is_dir |-> root_is_dir, dirs |-> dirs,
                    repo_list_file |-> file]
    /\ ret = NotReturned
    /\ max_evidence_per_edge = 0
    /\ edges = <<>>
    /\ arrivals = [k \in Keys |-> <<>>]
    /\ skipped = 0
    /\ edge_list = <<>>
    /\ main_pc = "start"
    /\ repo_dirs = <<>>
    /\ nodes = <<>>
    /\ scanned = <<>>
    /\ NoScan

NextMain ==
    \/ Configure
    \/ ScanNext

SpecMain == InitMain /\ [][NextMain]_vars

\* The names some line of the allow-list names.
NamedByAllowList ==
    {parse_repo_ref(call.repo_list_file.lines[i]).repo :
        i \in {j \in 1..Len(call.repo_list_file.lines) :
                  parse_repo_ref(call.repo_list_file.lines[j]).ok}}

\* C7: with an allow-list file given, every repository scanned, and every
\* node, is a discovered repository that a line of the allow-list names.
C7_AllowListRestricts ==
    call.repo_list_file.given =>
        \A d \in SeqToSet(scanned) \cup SeqToSet(repo_dirs)
                 \cup {nodes[i].name : i \in 1..Len(nodes)} :
            d \in call.dirs /\ d \in NamedByAllowList

(***************************************************************************)
(* iter_rg_matches: one run of the search tool in one repository.  The     *)
(* process either exits, with a return code and its captured stdout, or    *)
(* never does; subprocess.run (lines 276-282) is given no timeout and      *)
(* returns when the process has exited.                                    *)
(***************************************************************************)
\* The lines of stdout: a match event, one with an empty path, an event of
\* another type, a line that is no JSON.
Events ==
    { [type |-> "match", path |-> <<"go.mod">>, line_number |-> 3, text |-> "require b"],
      [type |-> "match", path |-> <<>>, line_number |-> 0, text |-> ""],
      [type |-> "begin", path |-> <<"go.mod">>, line_number |-> 0, text |-> ""],
      [type |-> "not json", path |-> <<>>, line_number |-> 0, text |-> ""] }

ReturnCodes == {0, 1, 2}

Processes ==
    { [exits |-> TRUE, returncode |-> rc, stdout |-> out] :
        rc \in ReturnCodes, out \in SeqsUpTo(Events, MaxEvents) }
    \cup { [exits |-> FALSE, returncode |-> 0, stdout |-> <<>>] }

InitScan ==
    /\ \E no_patterns \in BOOLEAN, proc \in Processes :
            call = [fn |-> "iter_rg_matches", no_patterns |-> no_patterns, proc |-> proc]
    /\ ret = NotReturned
    /\ max_evidence_per_edge = 0
    /\ edges = <<>>
    /\ arrivals = [k \in Keys |-> <<>>]
    /\ skipped = 0
    /\ edge_list = <<>>
    /\ main_pc = "scan"
    /\ repo_dirs = RepoOrder
    /\ nodes = <<>>
    /\ scanned = <<>>
    /\ rg_pc = "start"
    /\ rg_next = 1
    /\ rg_yielded = <<>>

\* Lines 266-282: return at once without patterns, else start rg and wait for it.
RgRun ==
    /\ rg_pc = "start"
    /\ rg_pc' = IF call.no_patterns THEN "done" ELSE "waiting"
    /\ UNCHANGED <<rg_next, rg_yielded, aggVars, callVars, mainVars>>

\* Lines 276-285: the process has exited; a return code other than 0 and 1 raises.
RgExit ==
    /\ rg_pc = "waiting"
    /\ call.proc.exits
    /\ rg_pc' = IF call.proc.returncode \notin {0, 1} THEN "failed" ELSE "parsing"
    /\ UNCHANGED <<rg_next, rg_yielded, aggVars, callVars, mainVars>>

\* Lines 287-301: the next line of stdout, yielded when it is a match with a path.
RgNextLine ==
    /\ rg_pc = "parsing"
    /\ IF rg_next > Len(call.proc.stdout)
       THEN /\ rg_pc' = "done"
            /\ UNCHANGED <<rg_next, rg_yielded>>
       ELSE LET event == call.proc.stdout[rg_next]
            IN  /\ rg_next' = rg_next + 1
                /\ rg_yielded' =
                      IF event.type = "match" /\ event.path # <<>>
                      THEN Append(rg_yielded, <<event.path, event.line_number, event.text>>)
                      ELSE rg_yielded
                /\ UNCHANGED rg_pc
    /\ UNCHANGED <<aggVars, callVars, mainVars>>

NextScan ==
    \/ RgRun
    \/ RgExit
    \/ RgNextLine

\* The interpreter keeps running the program.
SpecScan == InitScan /\ [][NextScan]_vars /\ WF_vars(NextScan)

\* C6: every call of iter_rg_matches ends: it has yielded its matches or it has
\* failed, also when the tool stalls.
C6_ScanEnds == <>(rg_pc \in {"done", "failed"})

=============================================================================
